---- MODULE Spec2Model ----
(***************************************************************************)
(* whisper-writer: the recording session engine of                         *)
(* src/src/writer/transcription_module.py (TranscriptionService) with the  *)
(* threads that act on it: the worker that runs record_and_transcribe, the *)
(* audio callback of the input stream, the holder of the ResultThread that *)
(* calls stop(), and the user's activation key.                            *)
(*                                                                         *)
(* One worker step is one shared-memory access of the code (a read of the  *)
(* cancel flag, of the buffer, of the key state, a put on the queue), so   *)
(* that the other threads interleave where they can in the program.        *)
(***************************************************************************)
EXTENDS Integers, Sequences, FiniteSets, TLC

(* ------------------------------ bounds -------------------------------- *)
\* blocks the audio callback delivers in one session
MaxFrames == 3
\* blocks delivered in one session of the 900 ms specification
MaxFramesVad == 32
\* blocks waiting in the buffer in the 900 ms specification
MaxBacklogVad == 1
\* sessions (calls of record_and_transcribe) in one run
MaxSessions == 2
\* sessions in one run of the specification with fairness
MaxSessionsFair == 1
\* longest text given to post_process_transcription
MaxTextLen == 4

(* ------------------------- program constants -------------------------- *)
frame_duration == 30
default_silence_duration == 900
default_sample_rate == 16000

(* ------------------------- RecordingMode ------------------------------ *)
\* The values of the enumeration (recording_mode.py).
RecordingModeValues ==
    {"voice_activity_detection", "press_to_toggle", "hold_to_record", "continuous"}

\* A member of the Enum, RecordingMode.X: an object of its own.
Member(v) == [enum |-> TRUE, value |-> v]

\* RecordingMode.X.value: the plain string.
Value(v) == [enum |-> FALSE, value |-> v]

RecordingMode == {Member(v) : v \in RecordingModeValues}

\* Python's == between a mode and a string: RecordingMode derives from Enum,
\* not from str, so a member equals only itself and never its value.
PyEq(a, b) == a = b

\* Configuration.validate_configuration: raises unless the mode is a member.
validate_configuration(mode) == mode \in RecordingMode

(* ------------------------- post processing ---------------------------- *)
\* Texts are sequences of one-character strings.
Whitespace == {" "}

lower(ch) ==
    CASE ch = "H" -> "h"
      [] ch = "I" -> "i"
      [] OTHER -> ch

RECURSIVE lstrip(_)
lstrip(s) ==
    IF s # <<>> /\ Head(s) \in Whitespace THEN lstrip(Tail(s)) ELSE s

RECURSIVE rstrip(_)
rstrip(s) ==
    IF s # <<>> /\ s[Len(s)] \in Whitespace
        THEN rstrip(SubSeq(s, 1, Len(s) - 1))
        ELSE s

strip(s) == rstrip(lstrip(s))

endswith_period(s) == s # <<>> /\ s[Len(s)] = "."

\* post_process_transcription with the space appended before the period is
\* looked for.
post_process_space_first(c, transcription) ==
    LET t1 == strip(transcription)
        t2 == IF c.add_trailing_space THEN t1 \o <<" ">> ELSE t1
        t3 == IF c.remove_trailing_period /\ endswith_period(t2)
                  THEN SubSeq(t2, 1, Len(t2) - 1) ELSE t2
    IN  IF c.remove_capitalization THEN [k \in 1..Len(t3) |-> lower(t3[k])] ELSE t3

\* post_process_transcription without the strip.
post_process_no_strip(c, transcription) ==
    LET t2 == IF c.remove_trailing_period /\ endswith_period(transcription)
                  THEN SubSeq(transcription, 1, Len(transcription) - 1)
                  ELSE transcription
        t3 == IF c.add_trailing_space THEN t2 \o <<" ">> ELSE t2
    IN  IF c.remove_capitalization THEN [k \in 1..Len(t3) |-> lower(t3[k])] ELSE t3

\* post_process_transcription, lines 143-152.
post_process_transcription(c, transcription) ==
    LET t1 == strip(transcription)
        t2 == IF c.remove_trailing_period /\ endswith_period(t1)
                  THEN SubSeq(t1, 1, Len(t1) - 1)
                  ELSE t1
        t3 == IF c.add_trailing_space THEN t2 \o <<" ">> ELSE t2
        t4 == IF c.remove_capitalization
                  THEN [i \in 1..Len(t3) |-> lower(t3[i])]
                  ELSE t3
    IN  t4

\* The texts a backend returns in the model.
RawTexts == { <<"H", "i", ".">>, <<" ", "H", "i", ".", " ">>, <<>> }

(* ------------------------------ state --------------------------------- *)
VARIABLES
    config,             \* TranscriptionService.config
    env,                \* the machine: CUDA present, which model constructions raise
    cli,                \* WhisperWriterCli: its local_model, on_shortcut's position, the status window
    models,             \* the models create_local_model has returned, by device
    frame_limit,        \* blocks the device delivers in one session (a bound)
    session_limit,      \* calls of record_and_transcribe in one run (a bound)
    backlog_limit,      \* blocks waiting in the buffer (a bound)
    sessions,           \* calls of record_and_transcribe so far
    pc,                 \* the worker's position in record_and_transcribe
    stop_transcription, \* ResultThread.stop_transcription, read by cancel_flag()
    key_pressed,        \* keyboard.is_pressed(activation_key)
    buffer,             \* record's buffer: the list the name is bound to
    rest,               \* buffer[n:], evaluated and not yet bound to the name
    frame,              \* record's frame: the block sliced off last (0: none)
    delivered,          \* blocks the callback delivered in this session
    recording,          \* len(recording), in samples
    num_silent_frames,  \* record's num_silent_frames
    status_queue,       \* the kinds of the events put on status_queue
    audio_file,         \* record's return value: 0 is '', k is the k-th file
    files,              \* temporary .wav files written so far
    local_model,        \* TranscriptionService.local_model: 0 is None, k the k-th model created
    outcome,            \* of the last call: "none", "returned" or "raised"
    result,             \* the text record_and_transcribe returned
    raw,                \* the text the backend returned
    obs                 \* what happened in this session (history, read by the properties)

vars == <<config, env, cli, models, frame_limit, session_limit, backlog_limit, sessions, pc, stop_transcription, key_pressed,
          buffer, rest, frame, delivered, recording, num_silent_frames,
          status_queue, audio_file, files, local_model, outcome, result, raw, obs>>

(* --------------------------- configuration ---------------------------- *)
\* silence_duration values of the model, besides the default of 900
SilenceDurations == {0, 60}

\* (remove_trailing_period, add_trailing_space, remove_capitalization)
PostFlags == { <<TRUE, FALSE, FALSE>>, <<FALSE, TRUE, TRUE>> }

Configuration(mode, silence, api, flags) ==
    [recording_mode         |-> mode,
     sample_rate            |-> default_sample_rate,
     silence_duration       |-> silence,
     use_api                |-> api,
     remove_trailing_period |-> flags[1],
     add_trailing_space     |-> flags[2],
     remove_capitalization  |-> flags[3],
     hide_status_window     |-> FALSE,
     device                 |-> "auto"]

\* The service stores whatever config object it is given (__init__). A
\* Configuration holds a member of RecordingMode; record compares the mode
\* with the members' .value strings, the form a config that did not pass
\* validate_configuration carries. Both forms are inputs of the model.
ConfigModes == RecordingMode \cup {Value(v) : v \in RecordingModeValues}

IsMode(c, v) == c.recording_mode.value = v

\* record, lines 86-87 and 91
num_buffer_frames == 300 \div frame_duration
num_silence_frames(c) == c.silence_duration \div frame_duration
frame_samples(c) == (c.sample_rate * frame_duration) \div 1000

ObsInit ==
    [cancel_at      |-> "never", \* the worker's position when stop() was called
     opened         |-> 0,       \* input streams opened
     errors         |-> 0,       \* 'error' events put
     cancels        |-> 0,       \* 'cancel' events put
     transcribing   |-> 0,       \* 'transcribing' events put
     written        |-> 0,       \* artifact files written
     backend_calls  |-> 0,       \* transcribe_local / transcribe_api calls
     capture_failed |-> FALSE,   \* opening the stream or a step of the loop raised
     write_failed   |-> FALSE,   \* writing the .wav file raised
     backend_raised |-> FALSE,   \* the backend call raised
     after_failure  |-> FALSE,   \* the session before this one had a capture failure
     processed      |-> 0,       \* frames that passed the check of line 100
     ran            |-> {},      \* the mode handlers that ran on the last such frame
     stop_frame     |-> 0,       \* the frame at which the loop broke (0: it did not)
     speech_seen    |-> FALSE,   \* a speech frame was processed
     silent_run     |-> 0,       \* consecutive non-speech frames processed since
     asserted       |-> 0,       \* samples of the frames processed with the key down
     release_frame  |-> 0,       \* first frame processed with the key up
     toggle_frame   |-> 0,       \* first frame after the first processed with the key down
     first_press    |-> FALSE,   \* the key is down since before the session started
     held_stop      |-> FALSE,   \* the loop broke on the press that started the session
     by_shortcut    |-> FALSE,   \* the session was started by on_shortcut
     bind_failed    |-> FALSE,   \* the call of the thread's target raised TypeError
     late_cancels   |-> 0,       \* 'cancel' events put by on_shortcut after the join
     created        |-> 0,       \* models created in this session
     model_used     |-> 0,       \* the model transcribe_local called (0: none)
     reposted       |-> <<>>,    \* post_process_transcription of its own result
     taken          |-> 0,       \* frames cut from the buffer
     late_frames    |-> 0,       \* frames that went through lines 101-120 with the flag set
     late_samples   |-> 0,       \* samples appended to the recording with the flag set
     api_calls      |-> 0]       \* transcribe_api calls

\* (use_api, post-processing flags, hide_status_window): three options that
\* are read in different places (the backend call, post_process_transcription,
\* on_shortcut). Every value of each, and every pair of values of two of
\* them, occurs.
Profiles ==
    { p \in BOOLEAN \X PostFlags \X BOOLEAN : p[3] = (p[1] = p[2][2]) }

\* The configurations of the model: every mode in both forms, the silence
\* durations for the mode that reads them, and the profiles.
Configurations ==
    { [Configuration(mode, silence, p[1], p[2]) EXCEPT !.hide_status_window = p[3]] :
        mode \in ConfigModes, silence \in SilenceDurations \cup {default_silence_duration},
        p \in Profiles }

(* ---------------------------- local model ----------------------------- *)
\* WhisperModel(model, device=d, ...) on machine e: the model, by the device
\* it runs on ('auto' is CUDA where CUDA is present), or the exception.
WhisperModel(d, e) ==
    LET on == IF d = "auto" THEN (IF e.cuda THEN "cuda" ELSE "cpu") ELSE d
    IN  IF on \in e.raises THEN [raised |-> TRUE, device |-> "none"]
                            ELSE [raised |-> FALSE, device |-> on]

\* create_local_model without the except clause.
create_local_model_no_fallback(c, e) ==
    WhisperModel(IF e.cuda /\ c.device # "cpu" THEN c.device ELSE "cpu", e)

\* create_local_model, lines 33-42: the configured device if CUDA is present
\* and the device is not 'cpu', else 'cpu'; if that construction raises, the
\* model is constructed once more on 'cpu'.
create_local_model(c, e) ==
    LET device == IF e.cuda /\ c.device # "cpu" THEN c.device ELSE "cpu"
        model == WhisperModel(device, e)
    IN  IF model.raised THEN WhisperModel("cpu", e) ELSE model

\* A machine without CUDA on which the model loads.
CpuMachine == [cuda |-> FALSE, raises |-> {}]

\* The machines of the model: CUDA present or not, and the devices on which
\* the construction of the model raises.
Machines == [cuda : BOOLEAN, raises : SUBSET {"cuda", "cpu"}]

\* The keyword arguments on_shortcut gives the thread (lines 63-64).
shortcut_kwargs == {"config", "local_model"}

\* The state after WhisperWriterCli(config) (run-cli.py, lines 22-35): the
\* service holds no model; without use_api the CLI has created one and keeps
\* it in its own attribute. A construction that raised is no state of the
\* program.
WhisperWriterCli(machines, configs) ==
    /\ env \in machines
    /\ config \in configs
    /\ local_model = 0
    /\ LET made == create_local_model(config, env)
       IN  IF config.use_api
             THEN /\ models = <<>>
                  /\ cli = [local_model |-> 0, pc |-> "idle", window |-> "none"]
             ELSE /\ ~made.raised
                  /\ models = <<made.device>>
                  /\ cli = [local_model |-> 1, pc |-> "idle", window |-> "none"]

\* No session has run yet: the bounds of the run, and what a session works on.
NoSession(frames, calls, backlog) ==
    /\ frame_limit = frames
    /\ session_limit = calls
    /\ backlog_limit = backlog
    /\ sessions = 0
    /\ pc = "idle"
    /\ stop_transcription = FALSE
    /\ key_pressed = FALSE
    /\ buffer = <<>>
    /\ rest = <<>>
    /\ frame = 0
    /\ delivered = 0
    /\ recording = 0
    /\ num_silent_frames = 0
    /\ status_queue = <<>>
    /\ audio_file = 0
    /\ files = 0
    /\ outcome = "none"
    /\ result = <<>>
    /\ raw = <<>>
    /\ obs = ObsInit

\* The state after WhisperWriterCli(config) on a machine without CUDA, before
\* any session.
Constructed(configs, frames, calls, backlog) ==
    /\ WhisperWriterCli({CpuMachine}, configs)
    /\ NoSession(frames, calls, backlog)

ModelConfigurations ==
    {c \in Configurations :
                    IF IsMode(c, "voice_activity_detection")
                        THEN c.silence_duration \in SilenceDurations
                        ELSE c.silence_duration = default_silence_duration}

Init == Constructed(ModelConfigurations, MaxFrames, MaxSessions, MaxFrames)

\* WhisperWriterCli.__init__, lines 30-33: without use_api the model is
\* created and kept by the CLI; an exception of create_local_model leaves the
\* constructor, and there is no CLI.
cli_init ==
    /\ cli.pc = "new"
    /\ LET made == create_local_model(config, env)
       IN  IF config.use_api
             THEN /\ cli' = [cli EXCEPT !.pc = "idle"]
                  /\ UNCHANGED models
             ELSE IF made.raised
             THEN /\ cli' = [cli EXCEPT !.pc = "failed"]
                  /\ UNCHANGED models
             ELSE /\ cli' = [cli EXCEPT !.pc = "idle", !.local_model = Len(models) + 1]
                  /\ models' = Append(models, made.device)
    /\ UNCHANGED <<config, env, frame_limit, session_limit, backlog_limit, sessions, pc,
                   stop_transcription, key_pressed, buffer, rest, frame, delivered,
                   recording, num_silent_frames, status_queue, audio_file, files,
                   local_model, outcome, result, raw, obs>>

(* ------------------------------ worker -------------------------------- *)
\* The positions at which the input stream is open (inside the with block).
StreamOpen == {"while", "len_check", "rebind", "inner_cancel", "mode"}

\* The positions inside record.
InRecord == StreamOpen \cup {"open", "check_cancel", "write"}

\* cancel_flag(): lambda: self.stop_transcription (ResultThread.run)
cancel_flag == stop_transcription

\* record returns: its buffer and frame are gone (the recording is kept here,
\* as what the session recorded).
record_returns ==
    /\ buffer' = <<>>
    /\ rest' = <<>>
    /\ frame' = 0
    /\ delivered' = 0

\* An except clause that reports and raises again.
record_reraise(o) ==
    /\ record_returns
    /\ status_queue' = Append(status_queue, "error")
    /\ audio_file' = 0
    /\ pc' = "done"
    /\ obs' = [o EXCEPT !.errors = @ + 1]

\* An except clause that reports and opens the stream once more.
record_except_retry(o) ==
    /\ record_returns
    /\ status_queue' = Append(status_queue, "error")
    /\ audio_file' = 0
    /\ pc' = "open"
    /\ obs' = [o EXCEPT !.errors = @ + 1]

\* record's except clause: the error event, and '' returned.
record_except(o) ==
    /\ record_returns
    /\ status_queue' = Append(status_queue, "error")
    /\ audio_file' = 0
    /\ pc' = "rat_check"
    /\ obs' = [o EXCEPT !.errors = @ + 1]

\* A caller invokes record_and_transcribe(status_queue, cancel_flag) on a new
\* ResultThread: the locals of record are set up (lines 76-87).
call_record_and_transcribe ==
    /\ pc \in {"idle", "done"}
    /\ cli.pc = "idle"
    /\ sessions < session_limit
    /\ sessions' = sessions + 1
    /\ stop_transcription' = FALSE
    /\ \E down \in BOOLEAN :
         /\ key_pressed' = down
         /\ obs' = [ObsInit EXCEPT !.first_press = down,
                                   !.after_failure = obs.capture_failed]
    /\ buffer' = <<>>
    /\ rest' = <<>>
    /\ frame' = 0
    /\ delivered' = 0
    /\ recording' = 0
    /\ num_silent_frames' = 0
    /\ audio_file' = 0
    /\ outcome' = "none"
    /\ result' = <<>>
    /\ raw' = <<>>
    /\ pc' = "open"
    /\ UNCHANGED <<config, env, cli, models, frame_limit, session_limit, backlog_limit, status_queue, files, local_model>>

\* with sd.InputStream(...): the device opens, or raises.
open_stream ==
    /\ pc = "open"
    /\ \/ /\ pc' = "while"
          /\ obs' = [obs EXCEPT !.opened = @ + 1]
          /\ UNCHANGED <<status_queue, audio_file, buffer, rest, frame, delivered>>
       \/ record_except([obs EXCEPT !.capture_failed = TRUE])
    /\ UNCHANGED <<config, env, cli, models, frame_limit, session_limit, backlog_limit, sessions, stop_transcription,
                   key_pressed, recording, num_silent_frames, files, local_model,
                   outcome, result, raw>>

\* while not cancel_flag(): the loop ends, and the with block with it, once the
\* flag is set.
while_test ==
    /\ pc = "while"
    /\ pc' = IF cancel_flag THEN "check_cancel" ELSE "len_check"
    /\ UNCHANGED <<config, env, cli, models, frame_limit, session_limit, backlog_limit, sessions, stop_transcription, key_pressed,
                   buffer, rest, frame, delivered, recording, num_silent_frames,
                   status_queue, audio_file, files, local_model, outcome, result,
                   raw, obs>>

\* A loop that waits for the block instead of going back to the test of the flag.
loop_wait == pc' = "len_check"

\* if len(buffer) < n: continue
loop_continue == pc' = "while"

\* Lines 94-98: too little in the buffer, or the frame is sliced off its front
\* and buffer[n:] evaluated.
take_frame ==
    /\ pc = "len_check"
    /\ IF Len(buffer) * frame_samples(config) < frame_samples(config)
         THEN /\ loop_continue
              /\ UNCHANGED <<frame, rest, obs>>
         ELSE /\ frame' = Head(buffer)
              /\ rest' = Tail(buffer)
              /\ pc' = "rebind"
              /\ obs' = [obs EXCEPT !.taken = @ + 1]
    /\ UNCHANGED <<config, env, cli, models, frame_limit, session_limit, backlog_limit, sessions, stop_transcription, key_pressed,
                   buffer, delivered, recording, num_silent_frames, status_queue,
                   audio_file, files, local_model, outcome, result, raw>>

\* buffer = buffer[n:]: the name is bound to the new list.
rebind ==
    /\ pc = "rebind"
    /\ buffer' = rest
    /\ rest' = <<>>
    /\ pc' = "inner_cancel"
    /\ UNCHANGED <<config, env, cli, models, frame_limit, session_limit, backlog_limit, sessions, stop_transcription, key_pressed,
                   frame, delivered, recording, num_silent_frames, status_queue,
                   audio_file, files, local_model, outcome, result, raw, obs>>

\* Line 100 without the test of the flag.
inner_cancel_unchecked ==
    /\ pc = "inner_cancel"
    /\ pc' = "mode"
    /\ UNCHANGED <<config, env, cli, models, frame_limit, session_limit, backlog_limit, sessions, stop_transcription, key_pressed,
                   buffer, rest, frame, delivered, recording, num_silent_frames,
                   status_queue, audio_file, files, local_model, outcome, result,
                   raw, obs>>

\* if not cancel_flag(): (line 100)
inner_cancel ==
    /\ pc = "inner_cancel"
    /\ pc' = IF ~cancel_flag THEN "mode" ELSE "while"
    /\ UNCHANGED <<config, env, cli, models, frame_limit, session_limit, backlog_limit, sessions, stop_transcription, key_pressed,
                   buffer, rest, frame, delivered, recording, num_silent_frames,
                   status_queue, audio_file, files, local_model, outcome, result,
                   raw, obs>>

(* --------------------------- mode handlers ---------------------------- *)
\* What one pass over lines 101-120 works on: len(recording),
\* num_silent_frames, whether a break was taken, and the handlers that ran.
LoopState(rec, silent) == [recording |-> rec, silent |-> silent, brk |-> FALSE, ran |-> {}]

\* Lines 102-105.
press_to_toggle(c, st, pressed) ==
    IF st.recording > 0 /\ pressed
        THEN [st EXCEPT !.brk = TRUE, !.ran = @ \cup {"press_to_toggle"}]
        ELSE [st EXCEPT !.recording = @ + frame_samples(c),
                        !.ran = @ \cup {"press_to_toggle"}]

\* Lines 107-110.
hold_to_record(c, st, pressed) ==
    IF pressed
        THEN [st EXCEPT !.recording = @ + frame_samples(c),
                        !.ran = @ \cup {"hold_to_record"}]
        ELSE [st EXCEPT !.brk = TRUE, !.ran = @ \cup {"hold_to_record"}]

\* Lines 112-120.
voice_activity_detection(c, st, is_speech) ==
    IF is_speech
        THEN [st EXCEPT !.recording = @ + frame_samples(c),
                        !.silent = 0,
                        !.ran = @ \cup {"voice_activity_detection"}]
        ELSE LET n == IF st.recording > 0 THEN st.silent + 1 ELSE st.silent
             IN  [st EXCEPT !.silent = n,
                            !.brk = (n >= num_silence_frames(c)),
                            !.ran = @ \cup {"voice_activity_detection"}]

\* The comparison of line 101 (and 106, 111): the configured mode against
\* RecordingMode.X.value.
mode_is(c, v) == PyEq(c.recording_mode, Value(v))

\* Lines 101-120 with a last else that ends the loop for any other mode.
mode_dispatch_else_break(c, st, pressed, is_speech) ==
    LET s1 == IF mode_is(c, "press_to_toggle") THEN press_to_toggle(c, st, pressed) ELSE st
    IN  IF s1.brk THEN s1
        ELSE IF mode_is(c, "hold_to_record") THEN hold_to_record(c, s1, pressed)
        ELSE IF mode_is(c, "voice_activity_detection")
                 THEN voice_activity_detection(c, s1, is_speech)
        ELSE [s1 EXCEPT !.brk = TRUE]

\* Lines 101-120: an if for press_to_toggle, then an if/elif for
\* hold_to_record and voice_activity_detection; no branch for continuous.
mode_dispatch(c, st, pressed, is_speech) ==
    LET s1 == IF mode_is(c, "press_to_toggle") THEN press_to_toggle(c, st, pressed) ELSE st
    IN  IF s1.brk THEN s1
        ELSE IF mode_is(c, "hold_to_record") THEN hold_to_record(c, s1, pressed)
        ELSE IF mode_is(c, "voice_activity_detection")
                 THEN voice_activity_detection(c, s1, is_speech)
        ELSE s1

\* The frame's pass calls keyboard.is_pressed or vad.is_speech, which may raise.
calls_library(c, st) ==
    \/ mode_is(c, "press_to_toggle") /\ st.recording > 0
    \/ mode_is(c, "hold_to_record")
    \/ mode_is(c, "voice_activity_detection")

\* What the pass over frame k adds to the session's history.
observe(o, c, s2, pressed, is_speech) ==
    LET k == o.processed + 1
        vad == IsMode(c, "voice_activity_detection")
        hold == IsMode(c, "hold_to_record")
        ptt == IsMode(c, "press_to_toggle")
    IN  [o EXCEPT
            !.processed = k,
            !.ran = s2.ran,
            !.stop_frame = IF s2.brk THEN k ELSE @,
            !.speech_seen = @ \/ (vad /\ is_speech),
            !.silent_run = IF ~vad \/ is_speech THEN 0
                           ELSE IF o.speech_seen THEN @ + 1 ELSE @,
            !.asserted = IF hold /\ pressed THEN @ + frame_samples(c) ELSE @,
            !.release_frame = IF hold /\ ~pressed /\ @ = 0 THEN k ELSE @,
            !.toggle_frame = IF ptt /\ pressed /\ k >= 2 /\ @ = 0 THEN k ELSE @,
            !.held_stop = @ \/ (s2.brk /\ ptt /\ o.first_press),
            !.late_frames = IF stop_transcription THEN @ + 1 ELSE @,
            !.late_samples = IF stop_transcription THEN @ + (s2.recording - recording) ELSE @]

\* One frame through lines 101-120: the handlers run, the loop breaks or goes
\* on; or a library call raises and the except clause runs.
mode_logic ==
    /\ pc = "mode"
    /\ LET st == LoopState(recording, num_silent_frames)
       IN  \/ \E is_speech \in (IF IsMode(config, "voice_activity_detection")
                                    THEN BOOLEAN ELSE {FALSE}) :
                 LET s2 == mode_dispatch(config, st, key_pressed, is_speech)
                 IN  /\ recording' = s2.recording
                     /\ num_silent_frames' = s2.silent
                     /\ pc' = IF s2.brk THEN "check_cancel" ELSE "while"
                     /\ obs' = observe(obs, config, s2, key_pressed, is_speech)
                     /\ UNCHANGED <<status_queue, audio_file, buffer, rest, frame,
                                    delivered>>
           \/ /\ calls_library(config, st)
              /\ record_except([obs EXCEPT !.capture_failed = TRUE,
                                           !.late_frames = IF stop_transcription
                                                               THEN @ + 1 ELSE @])
              /\ UNCHANGED <<recording, num_silent_frames>>
    /\ UNCHANGED <<config, env, cli, models, frame_limit, session_limit, backlog_limit, sessions, stop_transcription,
                   key_pressed, files, local_model, outcome, result, raw>>

(* ----------------------- after the capture loop ------------------------ *)
\* Lines 122-124 with the cancel event put only for an attached status window.
check_cancel_if_window ==
    /\ pc = "check_cancel"
    /\ IF cancel_flag
         THEN /\ record_returns
              /\ status_queue' = IF cli.window = "none" THEN status_queue
                                                        ELSE Append(status_queue, "cancel")
              /\ audio_file' = 0
              /\ pc' = "rat_check"
              /\ obs' = [obs EXCEPT !.cancels = IF cli.window = "none" THEN @ ELSE @ + 1]
         ELSE /\ pc' = "write"
              /\ UNCHANGED <<status_queue, audio_file, obs, buffer, rest, frame,
                             delivered>>
    /\ UNCHANGED <<config, env, cli, models, frame_limit, session_limit, backlog_limit, sessions, stop_transcription,
                   key_pressed, recording, num_silent_frames, files, local_model,
                   outcome, result, raw>>

\* Lines 122-124: if cancel_flag(): the cancel event, and '' returned.
check_cancel ==
    /\ pc = "check_cancel"
    /\ IF cancel_flag
         THEN /\ record_returns
              /\ status_queue' = Append(status_queue, "cancel")
              /\ audio_file' = 0
              /\ pc' = "rat_check"
              /\ obs' = [obs EXCEPT !.cancels = @ + 1]
         ELSE /\ pc' = "write"
              /\ UNCHANGED <<status_queue, audio_file, obs, buffer, rest, frame,
                             delivered>>
    /\ UNCHANGED <<config, env, cli, models, frame_limit, session_limit, backlog_limit, sessions, stop_transcription,
                   key_pressed, recording, num_silent_frames, files, local_model,
                   outcome, result, raw>>

\* Lines 126-136: the recording, whatever its size, is written to a new
\* temporary .wav file whose name is returned; or it raises, before or after
\* the file was created.
write_wav ==
    /\ pc = "write"
    /\ \/ /\ record_returns
          /\ files' = files + 1
          /\ audio_file' = files + 1
          /\ pc' = "rat_check"
          /\ obs' = [obs EXCEPT !.written = @ + 1]
          /\ UNCHANGED status_queue
       \/ /\ record_except([obs EXCEPT !.write_failed = TRUE])
          /\ files' \in {files, files + 1}
    /\ UNCHANGED <<config, env, cli, models, frame_limit, session_limit, backlog_limit, sessions, stop_transcription,
                   key_pressed, recording, num_silent_frames, local_model, outcome,
                   result, raw>>

\* record_and_transcribe without the check of line 171.
dispatch_unchecked == FALSE

\* record_and_transcribe, line 171: if cancel_flag(): return ''
cancelled_after_record == cancel_flag

\* Lines 170-173: record has returned; the flag is read once more.
rat_check ==
    /\ pc = "rat_check"
    /\ IF cancelled_after_record
         THEN /\ pc' = "done"
              /\ outcome' = "returned"
              /\ result' = <<>>
         ELSE /\ pc' = "transcribe"
              /\ UNCHANGED <<outcome, result>>
    /\ UNCHANGED <<config, env, cli, models, frame_limit, session_limit, backlog_limit, sessions, stop_transcription, key_pressed,
                   buffer, rest, frame, delivered, recording, num_silent_frames,
                   status_queue, audio_file, files, local_model, raw, obs>>

\* transcribe with the transcribing event put before the audio file is looked at.
transcribe_event_first ==
    /\ pc = "transcribe"
    /\ status_queue' = Append(status_queue, "transcribing")
    /\ obs' = [obs EXCEPT !.transcribing = @ + 1]
    /\ IF audio_file = 0
         THEN /\ pc' = "done"
              /\ outcome' = "returned"
              /\ result' = <<>>
         ELSE /\ pc' = "backend"
              /\ UNCHANGED <<outcome, result>>
    /\ UNCHANGED <<config, env, cli, models, frame_limit, session_limit, backlog_limit, sessions, stop_transcription, key_pressed,
                   buffer, rest, frame, delivered, recording, num_silent_frames,
                   audio_file, files, local_model, raw>>

\* transcribe, lines 155-159: '' for no audio file, else the transcribing event.
transcribe ==
    /\ pc = "transcribe"
    /\ IF audio_file = 0
         THEN /\ pc' = "done"
              /\ outcome' = "returned"
              /\ result' = <<>>
              /\ UNCHANGED <<status_queue, obs>>
         ELSE /\ status_queue' = Append(status_queue, "transcribing")
              /\ obs' = [obs EXCEPT !.transcribing = @ + 1]
              /\ pc' = "backend"
              /\ UNCHANGED <<outcome, result>>
    /\ UNCHANGED <<config, env, cli, models, frame_limit, session_limit, backlog_limit, sessions, stop_transcription, key_pressed,
                   buffer, rest, frame, delivered, recording, num_silent_frames,
                   audio_file, files, local_model, raw>>

\* transcribe_local, lines 45-46: the service's model is created on first use.
model_after_call(c, m) == IF c.use_api \/ m # 0 THEN m ELSE Len(models) + 1

\* Lines 161-167: transcribe_api or transcribe_local by use_api. The call
\* returns a text, which is post-processed and returned, or it raises: nothing
\* in transcribe or record_and_transcribe catches, so the exception leaves
\* record_and_transcribe. transcribe_local first creates the service's model
\* if it has none; an exception of create_local_model leaves the same way.
backend ==
    /\ pc = "backend"
    /\ LET creates == model_after_call(config, local_model) # local_model
           made == create_local_model(config, env)
           called == IF config.use_api THEN 0 ELSE model_after_call(config, local_model)
       IN  IF creates /\ made.raised
             THEN /\ outcome' = "raised"
                  /\ obs' = [obs EXCEPT !.backend_raised = TRUE]
                  /\ UNCHANGED <<raw, result, local_model, models>>
             ELSE /\ local_model' = model_after_call(config, local_model)
                  /\ models' = IF creates THEN Append(models, made.device) ELSE models
                  /\ \/ \E text \in RawTexts :
                          /\ raw' = text
                          /\ result' = post_process_transcription(config, text)
                          /\ outcome' = "returned"
                          /\ obs' = [obs EXCEPT !.backend_calls = @ + 1,
                                                !.api_calls = IF config.use_api THEN @ + 1 ELSE @,
                                                !.created = IF creates THEN @ + 1 ELSE @,
                                                !.model_used = called]
                     \/ /\ outcome' = "raised"
                        /\ obs' = [obs EXCEPT !.backend_calls = @ + 1,
                                              !.api_calls = IF config.use_api THEN @ + 1 ELSE @,
                                              !.backend_raised = TRUE,
                                              !.created = IF creates THEN @ + 1 ELSE @,
                                              !.model_used = called]
                        /\ UNCHANGED <<raw, result>>
    /\ pc' = "done"
    /\ UNCHANGED <<config, env, cli, frame_limit, session_limit, backlog_limit, sessions,
                   stop_transcription, key_pressed,
                   buffer, rest, frame, delivered, recording, num_silent_frames,
                   status_queue, audio_file, files>>

(* --------------------------- other threads ---------------------------- *)
\* The stream's callback: buffer.extend(indata[:, 0]), one block of
\* blocksize = n samples, appended to the list the name is bound to now.
callback ==
    /\ pc \in StreamOpen
    /\ delivered < frame_limit
    /\ Len(buffer) < backlog_limit
    /\ delivered' = delivered + 1
    /\ buffer' = Append(buffer, delivered + 1)
    /\ UNCHANGED <<config, env, cli, models, frame_limit, session_limit, backlog_limit, sessions, pc, stop_transcription,
                   key_pressed, rest, frame, recording, num_silent_frames,
                   status_queue, audio_file, files, local_model, outcome, result,
                   raw, obs>>

\* ResultThread.stop(), called by the holder of the thread while it runs: the
\* caller of a session started directly, the status window (which on_shortcut
\* gives the thread, line 69) of one started by on_shortcut.
stop ==
    /\ pc \notin {"idle", "done"}
    /\ cli.pc = "idle" \/ cli.window = "alive"
    /\ ~stop_transcription
    /\ stop_transcription' = TRUE
    /\ obs' = [obs EXCEPT !.cancel_at = pc]
    /\ UNCHANGED <<config, env, cli, models, frame_limit, session_limit, backlog_limit, sessions, pc, key_pressed, buffer, rest,
                   frame, delivered, recording, num_silent_frames, status_queue,
                   audio_file, files, local_model, outcome, result, raw>>

\* The modes whose rule reads the activation key.
UsesKey(c) == IsMode(c, "press_to_toggle") \/ IsMode(c, "hold_to_record")

\* The modes in which the model moves the key: those, and continuous, whose
\* loop is to go on whatever the key does.
KeyMoves(c) == UsesKey(c) \/ IsMode(c, "continuous")

\* The user presses the activation key.
key_press ==
    /\ pc \in StreamOpen
    /\ KeyMoves(config)
    /\ ~key_pressed
    /\ key_pressed' = TRUE
    /\ UNCHANGED <<config, env, cli, models, frame_limit, session_limit, backlog_limit, sessions, pc, stop_transcription, buffer,
                   rest, frame, delivered, recording, num_silent_frames,
                   status_queue, audio_file, files, local_model, outcome, result,
                   raw, obs>>

\* The user releases the activation key.
key_release ==
    /\ pc \in StreamOpen
    /\ KeyMoves(config)
    /\ key_pressed
    /\ key_pressed' = FALSE
    /\ obs' = [obs EXCEPT !.first_press = FALSE]
    /\ UNCHANGED <<config, env, cli, models, frame_limit, session_limit, backlog_limit, sessions, pc, stop_transcription, buffer,
                   rest, frame, delivered, recording, num_silent_frames,
                   status_queue, audio_file, files, local_model, outcome, result,
                   raw>>

(* ---------------------------- on_shortcut ----------------------------- *)
\* record_and_transcribe(self, status_queue, cancel_flag): the parameters a
\* call may still name once status_queue and cancel_flag are given.
accepts(kwargs) == kwargs \subseteq {}

\* on_shortcut, lines 57-72: the queue is cleared, the recording event put,
\* the thread created, the status window started unless hidden, and the
\* thread started.
on_shortcut ==
    /\ pc \in {"idle", "done"}
    /\ cli.pc = "idle"
    /\ sessions < session_limit
    /\ sessions' = sessions + 1
    /\ status_queue' = <<"recording">>
    /\ stop_transcription' = FALSE
    /\ key_pressed' = TRUE
    /\ obs' = [ObsInit EXCEPT !.first_press = TRUE,
                              !.after_failure = obs.capture_failed,
                              !.by_shortcut = TRUE]
    /\ cli' = [cli EXCEPT !.pc = "join",
                          !.window = IF config.hide_status_window THEN "none" ELSE "alive"]
    /\ buffer' = <<>>
    /\ rest' = <<>>
    /\ frame' = 0
    /\ delivered' = 0
    /\ recording' = 0
    /\ num_silent_frames' = 0
    /\ audio_file' = 0
    /\ outcome' = "none"
    /\ result' = <<>>
    /\ raw' = <<>>
    /\ pc' = "run"
    /\ UNCHANGED <<config, env, models, frame_limit, session_limit, backlog_limit, files, local_model>>

\* ResultThread.run, line 44: the target is called with the thread's args,
\* cancel_flag and the thread's keyword arguments; a keyword the target does
\* not take is a TypeError, which ends the thread with result None.
thread_run ==
    /\ pc = "run"
    /\ IF accepts(shortcut_kwargs)
         THEN /\ pc' = "open"
              /\ UNCHANGED <<outcome, obs>>
         ELSE /\ pc' = "done"
              /\ outcome' = "raised"
              /\ obs' = [obs EXCEPT !.bind_failed = TRUE]
    /\ UNCHANGED <<config, env, cli, models, frame_limit, session_limit, backlog_limit, sessions,
                   stop_transcription, key_pressed, buffer, rest, frame, delivered,
                   recording, num_silent_frames, status_queue, audio_file, files,
                   local_model, result, raw>>

\* on_shortcut, lines 73-77: the thread is joined; the cancel event is put if
\* there is a status window and it is still alive.
on_shortcut_join ==
    /\ cli.pc = "join"
    /\ pc = "done"
    /\ IF ~config.hide_status_window /\ cli.window = "alive"
         THEN /\ status_queue' = Append(status_queue, "cancel")
              /\ obs' = [obs EXCEPT !.late_cancels = @ + 1]
         ELSE UNCHANGED <<status_queue, obs>>
    /\ cli' = [cli EXCEPT !.pc = "idle", !.window = "none"]
    /\ UNCHANGED <<config, env, models, frame_limit, session_limit, backlog_limit, sessions, pc,
                   stop_transcription, key_pressed, buffer, rest, frame, delivered,
                   recording, num_silent_frames, audio_file, files, local_model,
                   outcome, result, raw>>

\* The status window's thread ends (the window is closed).
window_close ==
    /\ cli.window = "alive"
    /\ cli' = [cli EXCEPT !.window = "closed"]
    /\ UNCHANGED <<config, env, models, frame_limit, session_limit, backlog_limit, sessions, pc,
                   stop_transcription, key_pressed, buffer, rest, frame, delivered,
                   recording, num_silent_frames, status_queue, audio_file, files,
                   local_model, outcome, result, raw, obs>>

(* --------------------------- specification ---------------------------- *)
Worker ==
    \/ open_stream
    \/ while_test
    \/ take_frame
    \/ rebind
    \/ inner_cancel
    \/ mode_logic
    \/ check_cancel
    \/ write_wav
    \/ rat_check
    \/ transcribe
    \/ backend

Next ==
    \/ call_record_and_transcribe
    \/ on_shortcut
    \/ thread_run
    \/ on_shortcut_join
    \/ window_close
    \/ Worker
    \/ callback
    \/ stop
    \/ key_press
    \/ key_release

Spec == Init /\ [][Next]_vars

\* The worker is a thread of its own (ResultThread): the interpreter schedules
\* it again and again, and none of its steps waits for another thread.
InitFair == Constructed(ModelConfigurations, MaxFrames, MaxSessionsFair, MaxFrames)

FairSpec == InitFair /\ [][Next]_vars /\ WF_vars(Worker)

\* Sessions in voice_activity_detection mode with the default silence_duration
\* of 900 ms, long enough for the 30 silent frames; the activation key is not
\* read in this mode.
VadConfigurations ==
    {c \in Configurations :
        /\ IsMode(c, "voice_activity_detection")
        /\ c.silence_duration = default_silence_duration
        /\ ~c.use_api
        /\ c.remove_trailing_period}

InitVad == Constructed(VadConfigurations, MaxFramesVad, MaxSessionsFair, MaxBacklogVad)

NextVad ==
    \/ call_record_and_transcribe
    \/ Worker
    \/ callback
    \/ stop

SpecVad == InitVad /\ [][NextVad]_vars

\* The characters of the texts: a capital, a small letter, the period and
\* the space.
Alphabet == {"H", "i", ".", " "}

\* Every text of at most MaxTextLen characters.
Texts == UNION { [1..n -> Alphabet] : n \in 0..MaxTextLen }

\* Every combination of the three post-processing flags, on configurations
\* that differ in the mode as well.
PostConfigurations ==
    { Configuration(mode, default_silence_duration, FALSE, flags) :
        mode \in ConfigModes, flags \in BOOLEAN \X BOOLEAN \X BOOLEAN }

\* A service and a text about to be given to post_process_transcription.
InitPost ==
    /\ WhisperWriterCli({CpuMachine}, PostConfigurations)
    /\ raw \in Texts
    /\ result = <<>>
    /\ pc = "post"
    /\ frame_limit = 0
    /\ session_limit = 0
    /\ backlog_limit = 0
    /\ sessions = 0
    /\ stop_transcription = FALSE
    /\ key_pressed = FALSE
    /\ buffer = <<>>
    /\ rest = <<>>
    /\ frame = 0
    /\ delivered = 0
    /\ recording = 0
    /\ num_silent_frames = 0
    /\ status_queue = <<>>
    /\ audio_file = 0
    /\ files = 0
    /\ outcome = "none"
    /\ obs = ObsInit

\* post_process_transcription(transcription) is called with the text.
post_process ==
    /\ pc = "post"
    /\ result' = post_process_transcription(config, raw)
    /\ pc' = "post_again"
    /\ UNCHANGED <<config, env, cli, models, frame_limit, session_limit, backlog_limit, sessions,
                   stop_transcription, key_pressed, buffer, rest, frame, delivered,
                   recording, num_silent_frames, status_queue, audio_file, files,
                   local_model, outcome, raw, obs>>

\* post_process_transcription is called with what it returned.
post_process_again ==
    /\ pc = "post_again"
    /\ obs' = [obs EXCEPT !.reposted = post_process_transcription(config, result)]
    /\ pc' = "posted"
    /\ UNCHANGED <<config, env, cli, models, frame_limit, session_limit, backlog_limit, sessions,
                   stop_transcription, key_pressed, buffer, rest, frame, delivered,
                   recording, num_silent_frames, status_queue, audio_file, files,
                   local_model, outcome, result, raw>>

NextPost ==
    \/ post_process
    \/ post_process_again

SpecPost == InitPost /\ [][NextPost]_vars

\* The sample rates given to Configuration: the default, three more that the
\* voice activity detector takes, and two that sound cards offer besides.
SampleRates == {8000, 16000, 22050, 32000, 44100, 48000}

\* What Configuration is built from: by which way, the recording mode (a
\* member, or a plain string) and the sample rate.
Arguments(via, mode, rate) == [via |-> via, recording_mode |-> mode, sample_rate |-> rate]

\* The mode arguments: the members, the strings that are values of members,
\* and a string that is not.
ModeArguments == ConfigModes \cup {Value("bogus")}

\* RecordingMode(value), as from_dict calls it (line 44): the member with that
\* value, or ValueError.
RecordingModeOf(mode) ==
    IF mode.value \in RecordingModeValues
        THEN [raised |-> FALSE, member |-> Member(mode.value)]
        ELSE [raised |-> TRUE, member |-> mode]

\* Before Configuration(...) or Configuration.from_dict(...) is called;
\* from_dict is given the mode as a string.
InitConfig ==
    /\ env = CpuMachine
    /\ config \in { Arguments(via, mode, rate) :
                       via \in {"init", "from_dict"}, mode \in ModeArguments,
                       rate \in SampleRates }
    /\ config.via = "from_dict" => ~config.recording_mode.enum
    /\ local_model = 0
    /\ models = <<>>
    /\ cli = [local_model |-> 0, pc |-> "new", window |-> "none"]
    /\ pc = "configure"
    /\ raw = <<>>
    /\ result = <<>>
    /\ frame_limit = 0
    /\ session_limit = 0
    /\ backlog_limit = 0
    /\ sessions = 0
    /\ stop_transcription = FALSE
    /\ key_pressed = FALSE
    /\ buffer = <<>>
    /\ rest = <<>>
    /\ frame = 0
    /\ delivered = 0
    /\ recording = 0
    /\ num_silent_frames = 0
    /\ status_queue = <<>>
    /\ audio_file = 0
    /\ files = 0
    /\ outcome = "none"
    /\ obs = ObsInit

\* Configuration.from_dict and Configuration.__init__ (lines 8-59): from_dict
\* turns the string into a member or raises; __init__ stores its arguments and
\* validate_configuration raises ValueError for a mode that is no member.
\* Nothing looks at the sample rate.
configuration_init ==
    /\ pc = "configure"
    /\ LET looked == IF config.via = "from_dict"
                         THEN RecordingModeOf(config.recording_mode)
                         ELSE [raised |-> FALSE, member |-> config.recording_mode]
       IN  IF looked.raised \/ ~validate_configuration(looked.member)
             THEN /\ pc' = "config_error"
                  /\ outcome' = "raised"
                  /\ UNCHANGED config
             ELSE /\ pc' = "configured"
                  /\ outcome' = "returned"
                  /\ config' = [Configuration(looked.member, default_silence_duration,
                                              FALSE, <<TRUE, FALSE, FALSE>>)
                                  EXCEPT !.sample_rate = config.sample_rate]
    /\ UNCHANGED <<env, cli, models, frame_limit, session_limit, backlog_limit, sessions,
                   stop_transcription, key_pressed, buffer, rest, frame, delivered,
                   recording, num_silent_frames, status_queue, audio_file, files,
                   local_model, result, raw, obs>>

\* record, lines 91-105, under the configuration: the stream is opened with
\* blocksize n = sample_rate * frame_duration // 1000, and the first frame of
\* n samples is cut from the buffer and appended to the recording.
first_frame ==
    /\ pc = "configured"
    /\ recording' = recording + frame_samples(config)
    /\ pc' = "framed"
    /\ UNCHANGED <<config, env, cli, models, frame_limit, session_limit, backlog_limit, sessions,
                   stop_transcription, key_pressed, buffer, rest, frame, delivered,
                   num_silent_frames, status_queue, audio_file, files,
                   local_model, outcome, result, raw, obs>>

NextConfig ==
    \/ configuration_init
    \/ first_frame

SpecConfig == InitConfig /\ [][NextConfig]_vars

\* The devices local_model_options.device is given in the model.
Devices == {"auto", "cuda", "cpu"}

\* Local-model configurations with each device, in a mode whose sessions
\* reach the backend.
LocalConfigurations ==
    { [c EXCEPT !.device = d] :
        c \in {k \in ModelConfigurations :
                  /\ mode_is(k, "hold_to_record")
                  /\ ~k.use_api
                  /\ ~k.hide_status_window},
        d \in Devices }

\* Before WhisperWriterCli(config), on any of the machines.
InitModels ==
    /\ env \in Machines
    /\ config \in LocalConfigurations
    /\ local_model = 0
    /\ models = <<>>
    /\ cli = [local_model |-> 0, pc |-> "new", window |-> "none"]
    /\ NoSession(MaxFrames, MaxSessions, MaxFrames)

NextModels ==
    \/ cli_init
    \/ Next

SpecModels == InitModels /\ [][NextModels]_vars

(* ----------------------------- properties ------------------------------ *)
\* The session has ended: record_and_transcribe returned or raised.
Ended == pc = "done"

\* It returned the empty text.
ReturnedEmpty == outcome = "returned" /\ result = <<>>

\* C1 as stated: the flag set at any point of the session before a backend
\* call has started (stop() acts only then) means no backend call in the
\* session and the empty text returned.
C1_AnyPointBeforeBackend ==
    obs.cancel_at # "never" =>
        /\ obs.backend_calls = 0
        /\ Ended => ReturnedEmpty

\* C1, amended: the flag set before record_and_transcribe reads it at line 171
\* (in the capture loop, after a stop rule fired, after record's own check,
\* until that read) means no backend call in the session and the empty text
\* returned.
C1_CancelledBeforeCheck ==
    obs.cancel_at \in InRecord \cup {"rat_check"} =>
        /\ obs.backend_calls = 0
        /\ Ended => ReturnedEmpty

\* C1's case: a stop rule fired, the flag was set after record's check of
\* line 122, the artifact was written, and the session returned '' with no
\* backend call.
C1_Witness ==
    /\ Ended
    /\ obs.stop_frame > 0
    /\ obs.cancel_at \in {"write", "rat_check"}
    /\ obs.written = 1
    /\ obs.backend_calls = 0
    /\ ReturnedEmpty

\* C2: once the flag is set while the capture loop runs, record returns, in
\* every mode and whether or not the callback delivers another block.
C2_CancelEndsRecord ==
    (stop_transcription /\ pc \in StreamOpen) ~> (pc \notin InRecord)

\* C2's case: continuous mode, no block was ever delivered, the flag was set
\* while the loop waited for one, and record has returned.
C2_Witness ==
    /\ IsMode(config, "continuous")
    /\ obs.cancel_at = "len_check"
    /\ obs.processed = 0
    /\ obs.cancels = 1
    /\ pc = "rat_check"

\* The session ended at line 172: '' returned because the flag was set.
EndedCancelled ==
    /\ Ended
    /\ obs.cancel_at \in InRecord \cup {"rat_check"}

\* C3: every session that ends as cancelled (here: and had no error) has put a
\* cancel event on the status queue and has written no artifact file.
C3_CancelledSessionReported ==
    EndedCancelled /\ obs.errors = 0 => obs.cancels >= 1 /\ obs.written = 0

\* C4: a backend call that raises is caught in record_and_transcribe, which
\* puts an error event and returns the empty text; nothing reaches the caller.
C4_BackendErrorCaught ==
    /\ obs.backend_raised => outcome # "raised"
    /\ obs.backend_raised /\ Ended => ReturnedEmpty /\ obs.errors >= 1

\* C5: if opening the stream or a step of the capture loop raises, record puts
\* exactly one error event and yields no artifact, record_and_transcribe makes
\* no backend call and returns the empty text without raising, and the next
\* session can be started, with the locals of record fresh.
C5_CaptureErrorContained ==
    /\ obs.capture_failed =>
          /\ obs.errors = 1
          /\ audio_file = 0
          /\ obs.written = 0
          /\ obs.backend_calls = 0
          /\ obs.transcribing = 0
          /\ outcome # "raised"
          /\ pc \in {"rat_check", "transcribe", "done"}
          /\ Ended => ReturnedEmpty
          /\ Ended /\ sessions < session_limit => ENABLED call_record_and_transcribe
    /\ obs.after_failure /\ pc = "open" =>
          /\ stop_transcription <=> obs.cancel_at = "open"
          /\ buffer = <<>>
          /\ recording = 0
          /\ num_silent_frames = 0
          /\ obs.errors = 0

\* C5's case: the session after one whose capture failed recorded, called the
\* backend and returned a text.
C5_Witness ==
    /\ obs.after_failure
    /\ Ended
    /\ obs.written = 1
    /\ obs.backend_calls = 1
    /\ outcome = "returned"
    /\ result # <<>>

\* C6: under a valid configuration (the mode a RecordingMode member) each frame
\* taken while not cancelled is processed by exactly one handler, that of the
\* configured mode.
C6_ExactlyOneHandler ==
    validate_configuration(config.recording_mode) /\ obs.processed > 0 =>
        obs.ran = {config.recording_mode.value}

\* The frames of the session went through the loop without an exception.
NoCaptureError == ~obs.capture_failed

\* C7: in voice_activity_detection mode with silence_duration = 900 the
\* threshold is 30 frames, and the loop stops at the frame that completes the
\* first run of 30 consecutive non-speech frames after a speech frame, no
\* earlier and no later (a speech frame starts the run anew).
C7_StopsAtThirtySilentFrames ==
    IsMode(config, "voice_activity_detection") /\ config.silence_duration = 900 =>
        /\ num_silence_frames(config) = 30
        /\ NoCaptureError =>
              /\ obs.stop_frame > 0 => obs.speech_seen /\ obs.silent_run = 30
              /\ obs.speech_seen /\ obs.silent_run >= 30 => obs.stop_frame > 0

\* C8: in hold_to_record mode a frame is appended exactly when the key is down
\* as the frame is processed, the loop stops at the first frame processed with
\* the key up, and the recording holds the samples of the frames processed
\* with the key down.
C8_HoldToRecord ==
    IsMode(config, "hold_to_record") /\ NoCaptureError =>
        /\ recording = obs.asserted
        /\ obs.stop_frame = obs.release_frame

\* C9: in press_to_toggle mode the loop stops only on a press other than the
\* one that started the session, and only with something recorded; the press
\* that started the session, still held, never stops it.
C9_ToggleNeedsNewPress ==
    IsMode(config, "press_to_toggle") =>
        /\ ~obs.held_stop
        /\ obs.stop_frame > 0 => recording > 0 /\ key_pressed

\* C10: in press_to_toggle mode, with k >= 1 frames processed before the
\* toggle and the toggle seen at frame k + 1, the loop stops there with
\* k x frame_samples samples recorded, and the text returned after the backend
\* call is the post-processed backend text.
C10_ToggleAfterKFrames ==
    IsMode(config, "press_to_toggle") /\ NoCaptureError =>
        /\ obs.toggle_frame > 0 =>
              /\ obs.stop_frame = obs.toggle_frame
              /\ recording = (obs.toggle_frame - 1) * frame_samples(config)
        /\ Ended /\ outcome = "returned" /\ obs.backend_calls = 1 =>
              result = post_process_transcription(config, raw)

\* C11: in continuous mode no frame and no state of the key ends the capture
\* loop: record leaves the loop only with the flag set, or through its except
\* clause; no artifact is written, no transcribing event put and no backend
\* call made, and record_and_transcribe returns the empty text.
C11_ContinuousNeverStops ==
    IsMode(config, "continuous") =>
        /\ obs.stop_frame = 0
        /\ pc = "check_cancel" => stop_transcription
        /\ pc \notin {"write", "backend"}
        /\ obs.written = 0 /\ obs.transcribing = 0 /\ obs.backend_calls = 0
        /\ pc \in {"rat_check", "transcribe", "done"} /\ sessions > 0 /\ ~obs.bind_failed =>
              \/ obs.cancels = 1 /\ obs.cancel_at # "never"
              \/ obs.capture_failed /\ obs.errors = 1
        /\ Ended /\ ~obs.bind_failed => ReturnedEmpty

\* C11's case: a continuous session in which every block of the bound went
\* through the loop with the key pressed and released on the way, and which
\* ended only when it was cancelled.
C11_Witness ==
    /\ IsMode(config, "continuous")
    /\ obs.processed = frame_limit
    /\ ~obs.first_press /\ key_pressed
    /\ obs.cancels = 1
    /\ Ended
    /\ ReturnedEmpty

\* The flag was set in time for record's check of line 122.
CancelledInRecord == obs.cancel_at \in StreamOpen \cup {"open", "check_cancel"}

\* C12 as stated: a cancelled session with no status consumer
\* (hide_status_window true, no status window) has put no cancel event.
C12_NoConsumerNoCancelEvent ==
    /\ config.hide_status_window
    /\ cli.window = "none"
    /\ obs.cancel_at # "never"
    => obs.cancels = 0 /\ obs.late_cancels = 0

\* C12, amended: record puts exactly one cancel event in every session whose
\* flag it finds set at line 122, with or without a status consumer; only the
\* cancel event of on_shortcut (line 77) needs a status window.
C12_CancelEventByRecord ==
    /\ obs.cancels <= 1
    /\ obs.cancels = 1 => CancelledInRecord
    /\ CancelledInRecord /\ ~obs.capture_failed
          /\ pc \in {"rat_check", "transcribe", "backend", "done"} => obs.cancels = 1
    /\ obs.late_cancels <= 1
    /\ obs.late_cancels = 1 => ~config.hide_status_window /\ obs.by_shortcut

\* C12's case: hide_status_window is true, no status window exists, the
\* session was cancelled while the loop ran, and the last event on the queue
\* is record's cancel event.
C12_Witness ==
    /\ config.hide_status_window
    /\ cli.window = "none"
    /\ obs.cancel_at \in StreamOpen
    /\ obs.cancels = 1
    /\ status_queue # <<>>
    /\ status_queue[Len(status_queue)] = "cancel"
    /\ Ended

\* C13: with use_api false the local model is constructed at most once over
\* the life of the process, no session constructs one, and every
\* transcribe_local call uses the one instance made at construction.
C13_ModelCreatedOnce ==
    ~config.use_api =>
        /\ Len(models) <= 1
        /\ obs.created = 0
        /\ obs.model_used # 0 => obs.model_used = cli.local_model

\* The preferred device cannot be used: CUDA is absent, or the construction
\* of the model on CUDA raises.
DeviceUnavailable == ~env.cuda \/ "cuda" \in env.raises

\* C14: where the preferred device is unavailable and the construction on the
\* CPU succeeds, create_local_model does not raise and returns a model on the
\* CPU, at the construction of the CLI and in transcribe_local; the
\* transcribe_local call that follows is made on such a model.
C14_FallsBackToCpu ==
    DeviceUnavailable /\ "cpu" \notin env.raises /\ cli.pc # "new" =>
        /\ cli.pc # "failed"
        /\ cli.local_model = 1
        /\ \A i \in DOMAIN models : models[i] = "cpu"
        /\ Ended /\ obs.transcribing = 1 =>
              /\ obs.backend_calls = 1
              /\ obs.model_used = local_model
              /\ obs.model_used \in DOMAIN models

\* C14's case: CUDA is present and configured, the construction on it raises,
\* and a session's transcribe_local call returned a text from a model on the
\* CPU.
C14_Witness ==
    /\ env.cuda
    /\ env.raises = {"cuda"}
    /\ config.device = "cuda"
    /\ Ended
    /\ outcome = "returned"
    /\ obs.model_used \in DOMAIN models
    /\ models[obs.model_used] = "cpu"
    /\ result # <<>>

\* C15: for every text and every combination of the flags the result of
\* post_process_transcription is: the text without its leading and trailing
\* whitespace; then without its last character if remove_trailing_period is
\* set and that character is a period; then with one space appended if
\* add_trailing_space is set; then in lower case if remove_capitalization is
\* set. Nothing else of the configuration is read.
C15_FixedOrderPipeline ==
    pc \in {"post_again", "posted"} =>
        \E a \in 0..Len(raw), b \in 0..Len(raw) :
            /\ a + b <= Len(raw)
            /\ \A k \in 1..a : raw[k] \in Whitespace
            /\ \A k \in (Len(raw) - b + 1)..Len(raw) : raw[k] \in Whitespace
            /\ a + b < Len(raw) => raw[a + 1] \notin Whitespace /\ raw[Len(raw) - b] \notin Whitespace
            /\ LET s1 == SubSeq(raw, a + 1, Len(raw) - b)
                   s2 == IF config.remove_trailing_period /\ Len(s1) > 0 /\ s1[Len(s1)] = "."
                             THEN SubSeq(s1, 1, Len(s1) - 1) ELSE s1
                   s3 == IF config.add_trailing_space THEN Append(s2, " ") ELSE s2
                   s4 == IF config.remove_capitalization
                             THEN [k \in 1..Len(s3) |->
                                      IF s3[k] = "H" THEN "h" ELSE s3[k]]
                             ELSE s3
               IN  result = s4

\* C15's case: a text with whitespace on both sides of a capital and a period,
\* all three flags set.
C15_Witness ==
    /\ pc = "post_again"
    /\ raw = <<" ", "H", ".", " ">>
    /\ config.remove_trailing_period /\ config.add_trailing_space /\ config.remove_capitalization
    /\ result = <<"h", " ">>

\* C16 as stated: post_process_transcription applied to its own result, with
\* the same configuration, returns that result again, for every text.
C16_Idempotent ==
    pc = "posted" => obs.reposted = result

\* C16, amended: the second application returns the result of the first
\* exactly when remove_trailing_period is unset, or the stripped text does not
\* end in a period, or what is left once that period is dropped ends neither
\* in a period nor in whitespace.
C16_IdempotentUnlessUncovered ==
    pc = "posted" =>
        LET t1 == strip(raw)
            t2 == SubSeq(t1, 1, Len(t1) - 1)
            uncovered == /\ config.remove_trailing_period
                         /\ endswith_period(t1)
                         /\ t2 # <<>>
                         /\ t2[Len(t2)] \in Whitespace \cup {"."}
        IN  (obs.reposted = result) <=> ~uncovered

\* C16's case: 'Hi.' with remove_trailing_period and add_trailing_space gives
\* 'Hi ' both times.
C16_Witness ==
    /\ pc = "posted"
    /\ raw = <<"H", "i", ".">>
    /\ config.remove_trailing_period /\ config.add_trailing_space
    /\ result = <<"H", "i", " ">>
    /\ obs.reposted = result

\* C17: for every sample rate a Configuration can hold, the frame the loop
\* cuts (and the stream's block) has sample_rate * 30 / 1000 samples exactly:
\* a thousand frames hold the samples of 30 seconds.
C17_FrameLengthExact ==
    pc = "framed" => recording * 1000 = config.sample_rate * frame_duration

\* C18: a Configuration is constructed only from a valid recording mode and a
\* sample rate in {8000, 16000, 32000, 48000}, which it then holds unchanged;
\* with any other argument the construction raises.
C18_InvalidConfigurationRejected ==
    /\ pc \in {"configured", "framed"} =>
          /\ config.recording_mode \in RecordingMode
          /\ config.sample_rate \in {8000, 16000, 32000, 48000}
    /\ pc = "config_error" =>
          \/ config.recording_mode.value \notin RecordingModeValues
          \/ config.via = "init" /\ ~config.recording_mode.enum
          \/ config.sample_rate \notin {8000, 16000, 32000, 48000}

\* C19: whatever the interleaving of the callback and the loop, the blocks the
\* callback delivered are cut by the loop once each and in the order of
\* delivery: the k-th frame cut is the k-th block delivered, and the blocks
\* not cut yet wait in the buffer, in order.
C19_EveryBlockOnceInOrder ==
    pc \in StreamOpen =>
        LET waiting == IF pc = "rebind" THEN Tail(buffer) ELSE buffer
        IN  /\ obs.taken > 0 /\ pc \in {"rebind", "inner_cancel", "mode"} => frame = obs.taken
            /\ Len(waiting) = delivered - obs.taken
            /\ \A i \in 1..Len(waiting) : waiting[i] = obs.taken + i

\* What C20 says of every session but the sessions cancelled before dispatch:
\* on_shortcut's recording event is on the queue before the worker starts and
\* is the first event of the session; the transcribing event is put at most
\* once, immediately before the backend call and only with one following;
\* never where the capture failed, and never after an error or cancel event
\* of record.
EventsInPhaseOrder ==
    /\ obs.by_shortcut =>
          /\ status_queue # <<>>
          /\ status_queue[1] = "recording"
          /\ \A i \in 2..Len(status_queue) : status_queue[i] # "recording"
          /\ pc = "run" => status_queue = <<"recording">>
    /\ obs.transcribing <= 1
    /\ obs.backend_calls <= obs.transcribing
    /\ pc = "backend" <=> obs.transcribing = 1 /\ obs.backend_calls = 0
    /\ pc = "backend" => status_queue[Len(status_queue)] = "transcribing"
    /\ Ended => obs.backend_calls = obs.transcribing
    /\ obs.capture_failed => obs.transcribing = 0
    /\ obs.errors + obs.cancels > 0 => obs.transcribing = 0

\* C20 as stated: the events are in phase order, and a session whose flag was
\* set at any point before the transcribing event is due has none.
C20_PhaseOrder ==
    /\ EventsInPhaseOrder
    /\ obs.cancel_at \in InRecord \cup {"run", "rat_check", "transcribe"} => obs.transcribing = 0

\* C20, amended: the events are in phase order, and a session whose flag was
\* set before record_and_transcribe read it at line 171 has no transcribing
\* event.
C20_PhaseOrderUntilCheck ==
    /\ EventsInPhaseOrder
    /\ obs.cancel_at \in InRecord \cup {"run", "rat_check"} => obs.transcribing = 0

\* C20's case: a session that recorded, put the transcribing event as its
\* only event, called the backend once and returned a text; and it was not
\* the first session.
C20_Witness ==
    /\ Ended
    /\ sessions = 2
    /\ obs.written = 1
    /\ obs.transcribing = 1
    /\ obs.backend_calls = 1
    /\ obs.errors = 0 /\ obs.cancels = 0
    /\ status_queue[Len(status_queue)] = "transcribing"
    /\ outcome = "returned"

\* C21: in voice_activity_detection mode, whatever the silence_duration, the
\* loop stops at the first frame at which the recording is non-empty and the
\* run of non-speech frames times 30 ms has reached silence_duration, and at
\* no other frame; it never stops with the recording empty.
C21_StopsWhenSilenceReached ==
    IsMode(config, "voice_activity_detection") /\ NoCaptureError =>
        /\ obs.stop_frame > 0 =>
              /\ recording > 0
              /\ obs.silent_run * frame_duration >= config.silence_duration
        /\ /\ obs.processed > 0
           /\ recording > 0
           /\ obs.silent_run * frame_duration >= config.silence_duration
           => obs.stop_frame > 0

\* C22: once the flag is set, lines 101-120 run for no further frame, except
\* for the one frame that had passed the test of line 100 when the flag was
\* set; so at most one frame is appended to the recording after that.
C22_AtMostOneFrameAfterCancel ==
    /\ obs.late_frames <= 1
    /\ obs.late_frames = 1 => obs.cancel_at = "mode"
    /\ obs.late_samples <= frame_samples(config)
    /\ obs.late_samples > 0 => obs.late_frames = 1

\* C22's case: the flag was set when a frame had passed line 100, that frame
\* was appended, and the test of line 93 then ended the loop although another
\* block was waiting in the buffer.
C22_Witness ==
    /\ obs.cancel_at = "mode"
    /\ obs.late_frames = 1
    /\ obs.late_samples = frame_samples(config)
    /\ buffer # <<>>
    /\ obs.stop_frame = 0
    /\ pc = "check_cancel"

\* C23: an artifact file is written, and a backend call made, only in a
\* session that recorded something: a session whose loop stopped with no
\* sample recorded writes no file and calls no backend.
C23_ArtifactOnlyIfRecorded ==
    /\ obs.written > 0 => recording > 0
    /\ obs.backend_calls > 0 => recording > 0

\* C24: nothing is tried twice in a session: the input stream is opened at
\* most once, at most one backend call is made, on the backend that use_api
\* names and never on the other, at most one error event is put, and after
\* an error event or a backend exception the session only ends.
C24_NoRetry ==
    /\ obs.opened <= 1
    /\ obs.backend_calls <= 1
    /\ obs.errors <= 1
    /\ obs.api_calls = IF config.use_api THEN obs.backend_calls ELSE 0
    /\ obs.model_used # 0 => ~config.use_api
    /\ obs.backend_calls = 1 /\ ~config.use_api => obs.model_used # 0
    /\ obs.errors = 1 => pc \in {"rat_check", "transcribe", "done"}
    /\ obs.backend_raised => Ended

\* C24's case: the second session of a run, in which the one transcribe_api
\* call raised and the session ended with the stream opened once and nothing
\* tried again.
C24_Witness ==
    /\ Ended
    /\ sessions = 2
    /\ config.use_api
    /\ obs.opened = 1
    /\ obs.api_calls = 1
    /\ obs.model_used = 0
    /\ obs.backend_raised
    /\ obs.errors = 0

\* C25: in every session that on_shortcut starts, the call of
\* record_and_transcribe by the thread takes its arguments: it does not raise
\* on them, the worker enters record, and the thread's result is what
\* record_and_transcribe returns.
C25_WorkerEntersRecord ==
    obs.by_shortcut =>
        /\ ~obs.bind_failed
        /\ Ended => obs.opened + obs.errors > 0 /\ outcome = "returned"

\* C26: a cancel event is put in a session, by record or by on_shortcut, only
\* if the session's flag was set; with or without a status window.
C26_CancelEventOnlyIfCancelled ==
    obs.cancels + obs.late_cancels > 0 => obs.cancel_at # "never"

====
